---- MODULE Spec2Model ----
(***************************************************************************)
(* The dataset pipeline of the n8n workflow atlas: the Consolidator        *)
(* (scripts/build-dataset: workflows/<category>/**.json plus two JSONL     *)
(* streams -> n8n_workflows.jsonl), the Splitter                           *)
(* (scripts/split-jsonl-to-files.mjs) and the Renamer                      *)
(* (scripts/rename-workflows.mjs).                                         *)
(*                                                                         *)
(* Strings are sequences of one-character strings, so that the string      *)
(* operations of the scripts (startsWith, replace, regular expressions,    *)
(* split, join, substring, sort) are computed character by character.      *)
(***************************************************************************)
EXTENDS Integers, Sequences, FiniteSets, TLC

(***************************************************************************)
(* Characters and strings                                                  *)
(***************************************************************************)

\* The characters the model uses, in UTF-16 code unit order.
AsciiOrder ==
  << " ", "-", ".", "/",
     "0", "1", "2", "3", "4", "5", "6", "7", "8", "9", "@",
     "A", "B", "C", "D", "E", "F", "G", "H", "I", "J", "K", "L", "M",
     "N", "O", "P", "Q", "R", "S", "T", "U", "V", "W", "X", "Y", "Z", "_",
     "a", "b", "c", "d", "e", "f", "g", "h", "i", "j", "k", "l", "m",
     "n", "o", "p", "q", "r", "s", "t", "u", "v", "w", "x", "y", "z" >>

UpperSeq == SubSeq(AsciiOrder, 16, 41)
LowerSeq == SubSeq(AsciiOrder, 43, 68)

Digits == { AsciiOrder[i] : i \in 5..14 }
UpperChars == { UpperSeq[i] : i \in 1..26 }
LowerChars == { LowerSeq[i] : i \in 1..26 }
\* \w of a JavaScript regular expression
WordChars == LowerChars \cup UpperChars \cup Digits \cup {"_"}
\* [0-9a-f] under the i flag
HexChars == Digits \cup {"a", "b", "c", "d", "e", "f", "A", "B", "C", "D", "E", "F"}
\* [a-z0-9_-]
SafeLowerChars == LowerChars \cup Digits \cup {"_", "-"}
\* [a-zA-Z0-9_-]
SafeChars == SafeLowerChars \cup UpperChars

CharCode(c) == CHOOSE i \in 1..Len(AsciiOrder) : AsciiOrder[i] = c

\* String.prototype.toLowerCase, one character
LowerOf(c) ==
  IF c \in UpperChars
    THEN LowerSeq[CHOOSE i \in 1..26 : UpperSeq[i] = c]
    ELSE c

\* JavaScript's undefined where a string is expected: no string of characters
\* equals it.
Undefined == << "undefined" >>

\* Truthiness of a string-or-undefined value: undefined and "" are falsy.
Truthy(s) == s # Undefined /\ s # << >>

\* a || b on string-or-undefined values
OrElse(a, b) == IF Truthy(a) THEN a ELSE b

\* s.toLowerCase()
ToLowerCase(s) == [i \in 1..Len(s) |-> LowerOf(s[i])]

\* s.startsWith(p)
StartsWith(s, p) == Len(s) >= Len(p) /\ SubSeq(s, 1, Len(p)) = p

\* p occurs in s at position i (1-based)
OccursAt(s, p, i) == i >= 1 /\ i + Len(p) - 1 <= Len(s) /\ SubSeq(s, i, i + Len(p) - 1) = p

\* s.indexOf(p) + 1: the first position of p in s, 0 when there is none
IndexOf(s, p) ==
  LET hits == { i \in 1..Len(s) : OccursAt(s, p, i) }
  IN IF hits = {} THEN 0 ELSE CHOOSE i \in hits : \A j \in hits : i <= j

\* s.lastIndexOf(p) + 1
LastIndexOf(s, p) ==
  LET hits == { i \in 1..Len(s) : OccursAt(s, p, i) }
  IN IF hits = {} THEN 0 ELSE CHOOSE i \in hits : \A j \in hits : i >= j

\* s.replace(p, '') with a string pattern: the first occurrence only
RemoveFirst(s, p) ==
  LET i == IndexOf(s, p)
  IN IF i = 0 THEN s ELSE SubSeq(s, 1, i - 1) \o SubSeq(s, i + Len(p), Len(s))

\* s.includes(c)
Includes(s, c) == \E i \in 1..Len(s) : s[i] = c

\* s.split(c).pop(): what follows the last c, the whole string when there is none
SplitPop(s, c) ==
  LET hits == { i \in 1..Len(s) : s[i] = c }
      last == IF hits = {} THEN 0 ELSE CHOOSE i \in hits : \A j \in hits : i >= j
  IN SubSeq(s, last + 1, Len(s))

\* s.substring(0, n)
Substring0(s, n) == IF Len(s) <= n THEN s ELSE SubSeq(s, 1, n)

\* the longest run of characters of `set` that starts at position i
RECURSIVE RunFrom(_, _, _)
RunFrom(s, i, set) ==
  IF i > Len(s) \/ s[i] \notin set THEN << >>
  ELSE << s[i] >> \o RunFrom(s, i + 1, set)

\* parts.join(sep)
RECURSIVE Join(_, _)
Join(parts, sep) ==
  IF parts = << >> THEN << >>
  ELSE IF Len(parts) = 1 THEN parts[1]
  ELSE parts[1] \o sep \o Join(Tail(parts), sep)

\* a < b as Array.prototype.sort compares strings: by code units
RECURSIVE StrLess(_, _)
StrLess(a, b) ==
  IF b = << >> THEN FALSE
  ELSE IF a = << >> THEN TRUE
  ELSE IF a[1] # b[1] THEN CharCode(a[1]) < CharCode(b[1])
  ELSE StrLess(Tail(a), Tail(b))

\* Array.prototype.sort() on distinct strings
RECURSIVE SortStrings(_)
SortStrings(xs) ==
  IF xs = << >> THEN << >>
  ELSE LET least == CHOOSE i \in 1..Len(xs) :
                      \A j \in 1..Len(xs) : j = i \/ StrLess(xs[i], xs[j]) \/ xs[i] = xs[j]
           rest == [k \in 1..(Len(xs) - 1) |-> IF k < least THEN xs[k] ELSE xs[k + 1]]
       IN << xs[least] >> \o SortStrings(rest)

\* new Set(xs) in insertion order: the first occurrence of each element
RECURSIVE Dedup(_)
Dedup(xs) ==
  IF xs = << >> THEN << >>
  ELSE LET front == Dedup(SubSeq(xs, 1, Len(xs) - 1))
           last == xs[Len(xs)]
       IN IF \E i \in 1..Len(front) : front[i] = last THEN front
          ELSE Append(front, last)

\* k copies of the character c
Pad(c, k) == [i \in 1..k |-> c]

RECURSIVE SeqsUpTo(_, _)
SeqsUpTo(S, n) ==
  IF n = 0 THEN { << >> }
  ELSE LET shorter == SeqsUpTo(S, n - 1)
       IN shorter \cup { Append(s, x) : s \in { t \in shorter : Len(t) = n - 1 }, x \in S }

(***************************************************************************)
(* Renamer: sanitizeFilename                                               *)
(***************************************************************************)

\* .substring(0, 80)
NameLimit == 80

\* .replace(/[^a-z0-9_-]/g, '_')
ReplaceUnsafe(c) == IF c \in SafeLowerChars THEN c ELSE "_"
ReplaceAllUnsafe(s) == [i \in 1..Len(s) |-> ReplaceUnsafe(s[i])]

\* .replace(/_+/g, '_'): every run of underscores becomes one underscore
\* (computed on the two halves of the string, which meet in at most one run)
RECURSIVE CollapseUnderscores(_)
CollapseUnderscores(s) ==
  IF Len(s) <= 1 THEN s
  ELSE LET m == Len(s) \div 2
           l == CollapseUnderscores(SubSeq(s, 1, m))
           r == CollapseUnderscores(SubSeq(s, m + 1, Len(s)))
       IN IF l[Len(l)] = "_" /\ r[1] = "_" THEN l \o Tail(r) ELSE l \o r

\* .replace(/^_|_$/g, ''): one leading and one trailing underscore
TrimUnderscores(s) ==
  LET a == IF s # << >> /\ s[1] = "_" THEN Tail(s) ELSE s
  IN IF a # << >> /\ a[Len(a)] = "_" THEN SubSeq(a, 1, Len(a) - 1) ELSE a

sanitizeFilename(name) ==
  Substring0(
    TrimUnderscores(CollapseUnderscores(ReplaceAllUnsafe(ToLowerCase(name)))),
    NameLimit)

(***************************************************************************)
(* JSON values                                                             *)
(*                                                                         *)
(* A text is modelled by the value it denotes: kind "invalid" is a text    *)
(* JSON.parse rejects, kind "empty" a text of white space only.            *)
(* A workflow object has the fields id, name, nodes, meta and extra; a     *)
(* field the object does not define holds the undefined value of its type. *)
(***************************************************************************)

Invalid == [kind |-> "invalid"]
Empty == [kind |-> "empty"]
Null == [kind |-> "null"]
\* a JSON number other than 0, such as 7
Number == [kind |-> "number"]
\* the value of a property that is not defined
UndefinedValue == [kind |-> "undefined"]

NoNodes == [k |-> "undefined", items |-> << >>]
NodeArray(items) == [k |-> "array", items |-> items]
\* "nodes": 7
NodesNumber == [k |-> "number", items |-> << >>]

Node(type) == [k |-> "object", type |-> type]
NullNode == [k |-> "null", type |-> Undefined]

NoMeta == [k |-> "undefined", source |-> Undefined, archetype |-> Undefined, generated |-> FALSE]
Meta(source, archetype, generated) ==
  [k |-> "object", source |-> source, archetype |-> archetype, generated |-> generated]

\* extra: "none", or a further property whose value is "Infinity" (what
\* JSON.parse makes of a number literal such as 1e999) or "null".
Workflow(id, name, nodes, meta, extra) ==
  [kind |-> "object", id |-> id, name |-> name, nodes |-> nodes, meta |-> meta,
   extra |-> extra]

\* a value in a boolean context
TruthyValue(v) == v.kind \in {"object", "number"}

\* v.f for a string property of any value but null and undefined
GetStr(v, f) == IF v.kind = "object" /\ f \in DOMAIN v THEN v[f] ELSE Undefined

\* v.meta
GetMeta(v) == IF v.kind = "object" /\ "meta" \in DOMAIN v THEN v.meta ELSE NoMeta

\* v.nodes
GetNodes(v) == IF v.kind = "object" /\ "nodes" \in DOMAIN v THEN v.nodes ELSE NoNodes

\* v.content
GetContent(v) == IF v.kind = "object" /\ "content" \in DOMAIN v THEN v.content ELSE UndefinedValue

\* JSON.stringify of a non-finite number is null
StringifyExtra(e) == IF e = "Infinity" THEN "null" ELSE e

\* The value denoted by JSON.stringify(v), for a workflow value
StringifyWorkflow(w) ==
  IF w.kind = "object" /\ "extra" \in DOMAIN w
    THEN [w EXCEPT !.extra = StringifyExtra(w.extra)]
    ELSE w

\* The value denoted by JSON.stringify(v), for a record of the merged stream or
\* a workflow value
Stringify(v) ==
  IF v.kind = "object" /\ "content" \in DOMAIN v
    THEN [v EXCEPT !.content = StringifyWorkflow(v.content)]
    ELSE StringifyWorkflow(v)

\* A line of a line-delimited file: leading white space and a JSON text.
Line(pad, val) == [pad |-> pad, val |-> val]

\* line.trim() is the empty string
IsBlank(line) == line.val.kind = "empty"

(***************************************************************************)
(* Strings of the scripts                                                  *)
(***************************************************************************)

NodePrefix == << "n", "8", "n", "-", "n", "o", "d", "e", "s", "-", "b", "a", "s", "e", "." >>
SyntheticGeneratedDir ==
  << "s", "y", "n", "t", "h", "e", "t", "i", "c", "_", "g", "e", "n", "e", "r", "a", "t", "e", "d" >>
SourceRepository == << "r", "e", "p", "o", "s", "i", "t", "o", "r", "y" >>
SourceExternal ==
  << "e", "x", "t", "e", "r", "n", "a", "l", "_", "c", "o", "m", "m", "u", "n", "i", "t", "y" >>
CatSynthetic == << "s", "y", "n", "t", "h", "e", "t", "i", "c" >>
CatExternal == << "e", "x", "t", "e", "r", "n", "a", "l" >>
CatUncategorized == << "u", "n", "c", "a", "t", "e", "g", "o", "r", "i", "z", "e", "d" >>

(***************************************************************************)
(* Consolidator                                                            *)
(*                                                                         *)
(* The workflows directory is a sequence of JSON files in listing order,   *)
(* each [cat, sub, stem, val]: workflows/<cat>/<sub>/<stem>.json (sub may  *)
(* be empty) holding a text that denotes val.                              *)
(***************************************************************************)

File(cat, sub, stem, val) == [cat |-> cat, sub |-> sub, stem |-> stem, val |-> val]

SamePath(f, g) == f.cat = g.cat /\ f.sub = g.sub /\ f.stem = g.stem

\* fs.readdir(WORKFLOWS_DIR): the top-level directories, in listing order
dirEntries(tree) == Dedup([i \in 1..Len(tree) |-> tree[i].cat])

\* walkDir(workflows/<cat>): the JSON files below one category directory
walkDir(tree, cat) == SelectSeq(tree, LAMBDA f : f.cat = cat)

RECURSIVE WalkAll(_, _)
WalkAll(tree, cats) ==
  IF cats = << >> THEN << >>
  ELSE walkDir(tree, cats[1]) \o WalkAll(tree, Tail(cats))

\* The files the outer loops of main visit, in order: every directory entry
\* but synthetic_generated, and the files walkDir finds below it.
RepoFiles(tree) ==
  WalkAll(tree, SelectSeq(dirEntries(tree), LAMBDA c : c # SyntheticGeneratedDir))

\* The conditions under which the body of the try block throws:
\* JSON.parse, workflow.nodes of null, nodes.forEach of a value that is no
\* array, node.type of null.
BuildThrows(val) ==
  \/ val.kind \in {"invalid", "empty"}
  \/ val.kind = "null"
  \/ GetNodes(val).k = "number"
  \/ \E i \in 1..Len(GetNodes(val).items) : GetNodes(val).items[i].k = "null"

\* nodes = workflow.nodes || []
NodesOrEmpty(val) == GetNodes(val).items

\* The types the forEach adds to the integrations set, in order, stripped
integrationsOf(nodes) ==
  LET based == SelectSeq(nodes, LAMBDA n : Truthy(n.type) /\ StartsWith(n.type, NodePrefix))
  IN Dedup([i \in 1..Len(based) |-> RemoveFirst(based[i].type, NodePrefix)])

\* Array.from(integrations).sort()
integrationsUnsorted(nodes) == integrationsOf(nodes)
integrationsSorted(nodes) == SortStrings(integrationsOf(nodes))

\* workflow.meta || { source: 'repository' }
MetaOrRepository(val) ==
  IF GetMeta(val).k = "object" THEN GetMeta(val)
  ELSE Meta(SourceRepository, Undefined, FALSE)

\* The record main builds from one file
BuildRecord(file) ==
  [kind |-> "object",
   id |-> OrElse(GetStr(file.val, "id"), file.stem),
   name |-> OrElse(GetStr(file.val, "name"), file.stem),
   node_count |-> Len(NodesOrEmpty(file.val)),
   integrations |-> integrationsSorted(NodesOrEmpty(file.val)),
   category |-> file.cat,
   content |-> file.val,
   meta |-> MetaOrRepository(file.val)]

\* A line-delimited source file: it may not exist
Stream(exists, lines) == [exists |-> exists, lines |-> lines]
NoStream == Stream(FALSE, << >>)

\* streamJsonl: the lines it writes, in order (its return value is their number)
streamJsonlAll(stream) == stream.lines
streamJsonl(stream) ==
  IF ~stream.exists THEN << >>
  ELSE SelectSeq(stream.lines, LAMBDA l : ~IsBlank(l))

(***************************************************************************)
(* Splitter                                                                *)
(***************************************************************************)

\* .substring(0, 100)
IdLimit == 100

\* The NUL character (the JSON escape \u0000): Node rejects a path that holds it.
NulChar == "\\u0000"

\* String(n) for a natural number
RECURSIVE DecimalString(_)
DecimalString(n) ==
  IF n < 10 THEN << AsciiOrder[5 + n] >>
  ELSE Append(DecimalString(n \div 10), AsciiOrder[5 + (n % 10)])

WorkflowWord == << "w", "o", "r", "k", "f", "l", "o", "w", "_" >>

\* The first branch that matches decides: [category, subFolder, counter]
categorizeExternalFirst(record) ==
  LET meta == GetMeta(record)
  IN IF meta.source = SourceExternal
       THEN [category |-> CatExternal, subFolder |-> << >>, counter |-> "external"]
     ELSE IF meta.generated = TRUE \/ Truthy(meta.archetype)
       THEN [category |-> CatSynthetic,
             subFolder |-> IF Truthy(meta.archetype) THEN meta.archetype ELSE << >>,
             counter |-> "synthetic"]
     ELSE IF Truthy(GetStr(record, "category"))
       THEN [category |-> GetStr(record, "category"), subFolder |-> << >>,
             counter |-> "repository"]
     ELSE [category |-> CatUncategorized, subFolder |-> << >>, counter |-> "repository"]
categorize(record) ==
  LET meta == GetMeta(record)
  IN IF meta.generated = TRUE \/ Truthy(meta.archetype)
       THEN [category |-> CatSynthetic,
             subFolder |-> IF Truthy(meta.archetype) THEN meta.archetype ELSE << >>,
             counter |-> "synthetic"]
     ELSE IF meta.source = SourceExternal
       THEN [category |-> CatExternal, subFolder |-> << >>, counter |-> "external"]
     ELSE IF Truthy(GetStr(record, "category"))
       THEN [category |-> GetStr(record, "category"), subFolder |-> << >>,
             counter |-> "repository"]
     ELSE [category |-> CatUncategorized, subFolder |-> << >>, counter |-> "repository"]

\* .replace(/[^a-zA-Z0-9_-]/g, '_')
ReplaceUnsafeId(c) == IF c \in SafeChars THEN c ELSE "_"

\* record.id || record.name || `workflow_${stats.total}`, made safe
safeIdOf(record, total) ==
  LET rawId == OrElse(GetStr(record, "id"),
                 OrElse(GetStr(record, "name"), WorkflowWord \o DecimalString(total)))
  IN Substring0([i \in 1..Len(rawId) |-> ReplaceUnsafeId(rawId[i])], IdLimit)

\* record.content || record
workflowContentOf(record) ==
  IF TruthyValue(GetContent(record)) THEN GetContent(record) ELSE record

\* s.split('/'): the segments of a path string
RECURSIVE SplitSegments(_)
SplitSegments(s) ==
  IF ~Includes(s, "/") THEN << s >>
  ELSE LET i == CHOOSE j \in 1..Len(s) : s[j] = "/" /\ \A m \in 1..(j - 1) : s[m] # "/"
       IN << SubSeq(s, 1, i - 1) >> \o SplitSegments(SubSeq(s, i + 1, Len(s)))

\* What path.join makes of segments below a directory: empty and "." segments
\* vanish, ".." removes the segment before it or, when none is left, climbs one
\* level above the directory. [up, dirs]: levels climbed, directories below.
RECURSIVE normalizePath(_, _)
normalizePath(segs, acc) ==
  IF segs = << >> THEN acc
  ELSE LET seg == Head(segs)
           next == IF seg = << >> \/ seg = << "." >> THEN acc
                   ELSE IF seg = << ".", "." >>
                     THEN IF acc.dirs # << >>
                            THEN [acc EXCEPT !.dirs = SubSeq(@, 1, Len(@) - 1)]
                            ELSE [acc EXCEPT !.up = @ + 1]
                   ELSE [acc EXCEPT !.dirs = Append(@, seg)]
       IN normalizePath(Tail(segs), next)

\* The directory of outputPath, relative to OUTPUT_DIR:
\* path.join(OUTPUT_DIR, category, subFolder) or path.join(OUTPUT_DIR, category)
outputDir(category, subFolder) ==
  normalizePath(SplitSegments(category)
                  \o (IF subFolder # << >> THEN SplitSegments(subFolder) ELSE << >>),
                [up |-> 0, dirs |-> << >>])

\* outputPath names a file of a category directory below OUTPUT_DIR; a path that
\* climbs above OUTPUT_DIR, or names a file directly in it, does not
BelowCategory(dir) == dir.up = 0 /\ dir.dirs # << >>

\* The file at outputPath, by top-level directory and the directories below it
outputFile(dir, safeId, content) ==
  File(IF dir.dirs # << >> THEN Head(dir.dirs) ELSE << >>,
       IF dir.dirs # << >> THEN Join(Tail(dir.dirs), << "/" >>) ELSE << >>,
       safeId, content)

\* ensureDir or fs.writeFile rejects: a path with a NUL character
WriteFails(category, subFolder) ==
  Includes(category, NulChar) \/ Includes(subFolder, NulChar)

\* fs.writeFile(outputPath, ...): the file at the path is replaced, a new file
\* is listed last
writeFileKeep(tree, file) ==
  IF \E i \in 1..Len(tree) : SamePath(tree[i], file) THEN tree ELSE Append(tree, file)
writeFile(tree, file) ==
  IF \E i \in 1..Len(tree) : SamePath(tree[i], file)
    THEN [i \in 1..Len(tree) |-> IF SamePath(tree[i], file) THEN file ELSE tree[i]]
    ELSE Append(tree, file)

(***************************************************************************)
(* Renamer                                                                 *)
(***************************************************************************)

\* FOLDERS_TO_RENAME
FOLDERS_TO_RENAME == << CatSynthetic, CatExternal >>

\* .slice(0, 4)
MaxIntegrations == 4

\* /^[0-9a-f]{12,}$/i
MinHexLen == 12

\* /^\d{4}_/
DigitPrefixLen == 4

Base(w) == NodePrefix \o w

\* SKIP_NODES
SKIP_NODES ==
  { Base(<< "s", "e", "t" >>), Base(<< "c", "o", "d", "e" >>), Base(<< "n", "o", "O", "p" >>),
    Base(<< "s", "t", "i", "c", "k", "y", "N", "o", "t", "e" >>),
    Base(<< "m", "e", "r", "g", "e" >>), Base(<< "i", "f" >>),
    Base(<< "s", "w", "i", "t", "c", "h" >>),
    Base(<< "f", "u", "n", "c", "t", "i", "o", "n" >>),
    Base(<< "s", "t", "a", "r", "t" >>) }

\* /^[0-9a-f]{12,}$/i.test(name) || /^\d{4}_/.test(name)
LooksLikeHash(name) ==
  \/ Len(name) >= MinHexLen /\ \A i \in 1..Len(name) : name[i] \in HexChars
  \/ /\ Len(name) >= DigitPrefixLen + 1
     /\ \A i \in 1..DigitPrefixLen : name[i] \in Digits
     /\ name[DigitPrefixLen + 1] = "_"

\* type.match(/n8n-nodes-base\.(\w+)/): where the leftmost match starts, 0 for
\* no match
MatchStart(type) ==
  LET hits == { i \in 1..Len(type) :
                  /\ OccursAt(type, NodePrefix, i)
                  /\ i + Len(NodePrefix) <= Len(type)
                  /\ type[i + Len(NodePrefix)] \in WordChars }
  IN IF hits = {} THEN 0 ELSE CHOOSE i \in hits : \A j \in hits : i <= j

\* The name one node type adds to nodeTypes: << name >>, or << >> for none
nodeTypeName(type) ==
  IF MatchStart(type) # 0
    THEN << RunFrom(type, MatchStart(type) + Len(NodePrefix), WordChars) >>
  ELSE IF Includes(type, ".") THEN << SplitPop(type, ".") >>
  ELSE << >>

RECURSIVE Flatten(_)
Flatten(xss) == IF xss = << >> THEN << >> ELSE xss[1] \o Flatten(Tail(xss))

\* Array.from(nodeTypes) after the forEach
nodeTypesOf(nodes) ==
  LET used == SelectSeq(nodes, LAMBDA n : Truthy(n.type) /\ n.type \notin SKIP_NODES)
  IN Dedup(Flatten([i \in 1..Len(used) |-> nodeTypeName(used[i].type)]))

\* parts, before the fallback to the workflow's name
namePartsNoLimit(workflow) ==
  (IF Truthy(GetMeta(workflow).archetype) THEN << GetMeta(workflow).archetype >> ELSE << >>)
    \o nodeTypesOf(NodesOrEmpty(workflow))
namePartsOf(workflow) ==
  (IF Truthy(GetMeta(workflow).archetype) THEN << GetMeta(workflow).archetype >> ELSE << >>)
    \o Substring0(nodeTypesOf(NodesOrEmpty(workflow)), MaxIntegrations)

\* generateName throws: workflow.meta of null, nodes.forEach of a value that is
\* no array, node.type of null
GenerateThrows(workflow) ==
  \/ workflow.kind = "null"
  \/ GetNodes(workflow).k = "number"
  \/ \E i \in 1..Len(GetNodes(workflow).items) : GetNodes(workflow).items[i].k = "null"

generateName(workflow, originalName) ==
  LET parts == namePartsOf(workflow)
      name == GetStr(workflow, "name")
  IN IF parts = << >>
       THEN IF Truthy(name) /\ name # originalName
              THEN sanitizeFilename(Join(<< name >>, << "_" >>))
              ELSE originalName
       ELSE sanitizeFilename(Join(parts, << "_" >>))

\* usedNames.get(baseName) || 0
usedCount(usedNames, baseName) ==
  IF baseName \in DOMAIN usedNames THEN usedNames[baseName] ELSE 0

\* usedNames.set(baseName, counter + 1)
usedSetKeep(usedNames, baseName, counter) == usedNames
usedSet(usedNames, baseName, counter) ==
  [n \in DOMAIN usedNames \cup {baseName} |->
     IF n = baseName THEN counter + 1 ELSE usedNames[n]]

\* the file now at a path, Invalid when fs.readFile finds none
ReadAt(t, path) ==
  IF \E i \in 1..Len(t) : SamePath(t[i], path)
    THEN (t[CHOOSE i \in 1..Len(t) : SamePath(t[i], path)]).val
    ELSE Invalid

\* fs.rename(filePath, newPath): the file moves, and replaces a file at newPath
renameFile(t, old, newStem) ==
  LET moved == File(old.cat, old.sub, newStem, ReadAt(t, old))
      kept == SelectSeq(t, LAMBDA f : SamePath(f, old) \/ ~SamePath(f, moved))
  IN [i \in 1..Len(kept) |-> IF SamePath(kept[i], old) THEN moved ELSE kept[i]]

\* The files main visits: walkDir of each folder of FOLDERS_TO_RENAME
RenameFilesFirst(t) ==
  IF WalkAll(t, FOLDERS_TO_RENAME) = << >> THEN << >>
  ELSE << Head(WalkAll(t, FOLDERS_TO_RENAME)) >>
RenameFiles(t) == WalkAll(t, FOLDERS_TO_RENAME)

\* What one iteration did: the path, the workflow read, whether the basename
\* looks like a hash, parts, baseName, newName, the earlier uses of baseName,
\* and which counter the iteration incremented
LogEntry(path, val, hash, parts, base, newName, uses, outcome) ==
  [path |-> path, val |-> val, hash |-> hash, parts |-> parts, base |-> base,
   newName |-> newName, uses |-> uses, outcome |-> outcome]

(***************************************************************************)
(* Inputs                                                                  *)
(***************************************************************************)

\* most JSON files below workflows/ when a Consolidator run starts
MaxFiles == 2
\* most lines of workflows/synthetic_generated.jsonl
MaxSynth == 3
\* most lines of n8n_external_cleaned.jsonl
MaxExt == 1
\* most lines of n8n_workflows.jsonl when the Splitter runs on its own
MaxLines == 2
\* most JSON files below workflows/synthetic and workflows/external when a
\* Renamer run starts
MaxRenFiles == 3

StrDemo == << "d", "e", "m", "o" >>
StrKits == << "k", "i", "t", "s" >>
StrSub == << "s", "u", "b" >>
StrRag == << "r", "a", "g" >>
StrOps == << "o", "p", "s" >>
StrTest == << "T", "e", "s", "t" >>
StrW2 == << "w", "2" >>
TypeSlack == Base(<< "s", "l", "a", "c", "k" >>)
TypeSet == Base(<< "s", "e", "t" >>)
TypeOpenAi == Base(<< "o", "p", "e", "n", "A", "i" >>)
TypeGmail == Base(<< "g", "m", "a", "i", "l" >>)
TypeHttp == Base(<< "h", "t", "t", "p", "R", "e", "q", "u", "e", "s", "t" >>)
TypeTelegram == Base(<< "t", "e", "l", "e", "g", "r", "a", "m" >>)
TypeAgent == << "@", "n", "8", "n", "/", "n", "8", "n", "-", "n", "o", "d", "e", "s", "-", "l", "a", "n", "g", "c", "h", "a", "i", "n", ".", "a", "g", "e", "n", "t" >>

\* {"name":"Test","nodes":[{"type":"n8n-nodes-base.slack"},{"type":"n8n-nodes-base.set"}]}
DemoWorkflow ==
  Workflow(Undefined, StrTest, NodeArray(<< Node(TypeSlack), Node(TypeSet) >>), NoMeta, "none")

\* {"nodes":[{"type":"n8n-nodes-base.slack"},{"type":"@n8n/n8n-nodes-langchain.agent"},
\*           {"type":"n8n-nodes-base.gmail"},{},{"type":"n8n-nodes-base.slack"}],"big":1e999}
MixedWorkflow ==
  Workflow(Undefined, Undefined,
           NodeArray(<< Node(TypeSlack), Node(TypeAgent), Node(TypeGmail), Node(Undefined),
                        Node(TypeSlack) >>),
           NoMeta, "Infinity")

\* {"id":"w2","meta":{"archetype":"rag"}}
ArchetypeWorkflow == Workflow(StrW2, Undefined, NoNodes, Meta(Undefined, StrRag, FALSE), "none")

\* {"nodes":7}
BadNodesWorkflow == Workflow(Undefined, Undefined, NodesNumber, NoMeta, "none")

\* {}
EmptyWorkflow == Workflow(Undefined, Undefined, NoNodes, NoMeta, "none")

\* The JSON files that may lie below workflows/, in listing order
FilePool ==
  << File(StrDemo, << >>, << "x" >>, DemoWorkflow),
     File(StrKits, << >>, << "a" >>, ArchetypeWorkflow),
     File(StrDemo, StrSub, << "x" >>, MixedWorkflow),
     File(StrKits, << >>, << "n" >>, Null),
     File(SyntheticGeneratedDir, << >>, << "g" >>, EmptyWorkflow),
     File(StrKits, << >>, << "y" >>, BadNodesWorkflow),
     File(StrDemo, << >>, << "b", "a", "d" >>, Invalid),
     File(StrKits, << >>, << "s", "e", "v", "e", "n" >>, Number) >>

RECURSIVE PickFrom(_, _)
PickFrom(pool, S) ==
  IF pool = << >> THEN << >>
  ELSE PickFrom(SubSeq(pool, 1, Len(pool) - 1), S)
         \o (IF Len(pool) \in S THEN << pool[Len(pool)] >> ELSE << >>)

\* The directory trees that hold at most n files of the pool
Trees(pool, n) ==
  { PickFrom(pool, S) : S \in { T \in SUBSET (1..Len(pool)) : Cardinality(T) <= n } }

\* A blank line
BlankLine == Line(<< " " >>, Empty)

\* The i-th record of the synthetic stream; every second line is indented
SynLine(i) ==
  Line(IF i % 2 = 0 THEN << " " >> ELSE << >>,
       [kind |-> "object", id |-> << "s" >> \o DecimalString(i), name |-> StrTest,
        node_count |-> 0, integrations |-> << >>, category |-> Undefined,
        content |-> EmptyWorkflow, meta |-> Meta(Undefined, StrRag, TRUE)])

\* The i-th record of the external stream
ExtLine(i) ==
  Line(<< >>,
       [kind |-> "object", id |-> << "e" >> \o DecimalString(i), name |-> StrTest,
        node_count |-> 0, integrations |-> << >>, category |-> CatExternal,
        content |-> EmptyWorkflow, meta |-> Meta(SourceExternal, Undefined, FALSE)])

\* The streams of at most n lines: line i is blank or the i-th record; and no stream
Streams(n, lines) ==
  {NoStream} \cup
  UNION { { Stream(TRUE, [i \in 1..k |-> IF i \in B THEN BlankLine ELSE lines[i]]) :
              B \in SUBSET (1..k) } : k \in 0..n }

\* The records a line of n8n_workflows.jsonl may hold
RecordPool ==
  { [kind |-> "object", id |-> id, name |-> StrTest, node_count |-> 0, integrations |-> << >>,
     category |-> sc[2], content |-> EmptyWorkflow,
     meta |-> Meta(sc[1], archetype, generated)] :
      id \in { << "r", "1" >> },
      sc \in { << Undefined, Undefined >>, << SourceExternal, StrDemo >>,
               << SourceRepository, StrDemo >>, << Undefined, << >> >> },
      archetype \in { Undefined, << >>, StrRag },
      generated \in BOOLEAN }

LinePool ==
  { Line(<< >>, r) : r \in RecordPool }
    \cup { BlankLine, Line(<< >>, Invalid), Line(<< >>, Null), Line(<< >>, Number),
           Line(<< >>, [kind |-> "object", id |-> << "r", "2" >>, name |-> StrTest, node_count |-> 0,
                        integrations |-> << >>, category |-> << NulChar >>,
                        content |-> EmptyWorkflow, meta |-> NoMeta]) }

\* A record of n8n_workflows.jsonl by the properties that decide its path
Record(id, name, category, content, meta) ==
  [kind |-> "object", id |-> id, name |-> name, node_count |-> 0, integrations |-> << >>,
   category |-> category, content |-> content, meta |-> meta]

StrAB == << "a", "_", "b" >>
StrDotDot == << ".", "." >>
\* an id one character longer than the Splitter keeps
LongId(last) == Pad("a", IdLimit) \o << last >>

\* Lines whose records differ in what names their file: ids with unsafe
\* characters, ids that become equal when made safe or cut, records without id
\* or name, and categories and archetypes that are paths
PathPool ==
  { BlankLine, Line(<< >>, Invalid), Line(<< >>, Number),
    Line(<< >>, Record(<< "a", " ", "b" >>, StrTest, StrDemo, DemoWorkflow, NoMeta)),
    Line(<< >>, Record(StrAB, StrTest, StrDemo, EmptyWorkflow, NoMeta)),
    Line(<< >>, Record(Undefined, StrTest, StrDemo, EmptyWorkflow, NoMeta)),
    Line(<< >>, Record(Undefined, Undefined, Undefined, EmptyWorkflow, NoMeta)),
    Line(<< >>, Record(LongId("a"), StrTest, StrDemo, DemoWorkflow,
                       Meta(Undefined, StrRag, FALSE))),
    Line(<< >>, Record(LongId("b"), StrTest, StrDemo, EmptyWorkflow,
                       Meta(Undefined, StrRag, FALSE))),
    Line(<< >>, Record(<< "x" >>, StrTest, StrDotDot, EmptyWorkflow, NoMeta)),
    Line(<< >>, Record(<< "x" >>, StrTest, StrDemo, EmptyWorkflow,
                       Meta(Undefined, << ".", ".", "/", ".", "." >>, TRUE))),
    Line(<< >>, Record(<< "x" >>, StrTest, << "a", "/", "b" >>, DemoWorkflow, NoMeta)) }

\* A line whose record names a directory that cannot be created
NulLine == Line(<< >>, Record(<< "r", "2" >>, StrTest, << NulChar >>, EmptyWorkflow, NoMeta))

\* a1b2c3d4e5f67890.json: nodes slack, set, openAi
HashA == << "a", "1", "b", "2", "c", "3", "d", "4", "e", "5", "f", "6", "7", "8", "9", "0" >>
HashB == << "b", "1", "b", "2", "c", "3", "d", "4", "e", "5", "f", "6", "7", "8", "9", "0" >>
HashC == << "c", "1", "b", "2", "c", "3", "d", "4", "e", "5", "f", "6", "7", "8", "9", "0" >>
HashD == << "d", "1", "b", "2", "c", "3", "d", "4", "e", "5", "f", "6", "7", "8", "9", "0" >>
HashE == << "a", "b", "c", "d", "e", "f", "1", "2", "3", "4", "5", "6" >>
NumberedStem == << "0", "0", "0", "1", "_", "f", "l", "o", "w" >>
MyFlow == << "M", "y", " ", "F", "l", "o", "w" >>
SlackOpenai == << "s", "l", "a", "c", "k", "_", "o", "p", "e", "n", "a", "i" >>

SlackSetOpenAi ==
  Workflow(Undefined, Undefined,
           NodeArray(<< Node(TypeSlack), Node(TypeSet), Node(TypeOpenAi) >>), NoMeta, "none")

\* six different node types below an archetype
ManyNodes ==
  Workflow(Undefined, Undefined,
           NodeArray(<< Node(TypeSlack), Node(TypeAgent), Node(TypeSet), Node(TypeSlack),
                        Node(TypeHttp), Node(TypeGmail), Node(TypeTelegram) >>),
           Meta(Undefined, StrRag, TRUE), "none")

\* The JSON files that may lie below workflows/synthetic and workflows/external
RenPool ==
  << File(CatSynthetic, << >>, HashA, SlackSetOpenAi),
     File(CatSynthetic, StrRag, HashE, EmptyWorkflow),
     File(CatSynthetic, StrOps, HashE, EmptyWorkflow),
     File(CatSynthetic, StrRag, HashC, ManyNodes),
     File(CatExternal, << >>, HashB,
          Workflow(Undefined, Undefined,
                   NodeArray(<< Node(TypeSlack), Node(TypeOpenAi), Node(TypeSlack) >>),
                   NoMeta, "none")),
     File(CatExternal, << >>, HashD,
          Workflow(Undefined, HashD, NodeArray(<< Node(TypeSet) >>), NoMeta, "none")),
     File(CatExternal, StrOps, HashB,
          Workflow(Undefined, Undefined,
                   NodeArray(<< Node(TypeSet), Node(TypeSlack), Node(TypeSet), Node(TypeOpenAi) >>),
                   NoMeta, "none")),
     File(CatExternal, << >>, NumberedStem,
          Workflow(Undefined, MyFlow, NodeArray(<< Node(TypeSet) >>), NoMeta, "none")),
     File(CatExternal, << >>, << "m", "y", "_", "f", "l", "o", "w" >>, SlackSetOpenAi),
     File(CatExternal, StrOps, HashA, Invalid) >>

\* Files for a run of all stages: one that no stage can parse, before one that
\* every stage can, in a folder the Renamer visits; and one elsewhere
StagePool ==
  << File(CatExternal, << >>, HashA, Invalid),
     File(CatExternal, << >>, HashB, SlackSetOpenAi),
     File(StrDemo, << >>, << "x" >>, DemoWorkflow) >>

\* Streams for a run of all stages: a line that fails before one that does not
StageSynthetics == { NoStream, Stream(TRUE, << Line(<< >>, Invalid), SynLine(2) >>) }
StageExternals == { NoStream, Stream(TRUE, << NulLine, ExtLine(2) >>) }

(***************************************************************************)
(* State                                                                   *)
(***************************************************************************)

VARIABLES
  tree,            \* the JSON files below workflows/, in listing order
  synthetic,       \* workflows/synthetic_generated.jsonl
  external,        \* n8n_external_cleaned.jsonl
  pc,              \* where the run is
  files,           \* Consolidator: the files its loops visit
  fi,              \* Consolidator: index of the next file
  merged,          \* n8n_workflows.jsonl: the lines written
  total,           \* Consolidator: total
  syntheticCount,  \* Consolidator: syntheticCount
  externalCount,   \* Consolidator: externalCount
  li,              \* Splitter: index of the next line
  stats,           \* Splitter: stats
  placed,          \* Splitter: per categorized line, its category and subfolder
  written          \* Splitter: per written file, the line and the path

\* all but the directory tree, which the Renamer works on too
runVars == << synthetic, external, pc, files, fi, merged, total, syntheticCount,
              externalCount, li, stats, placed, written >>

pipeVars == << tree, runVars >>

ZeroStats == [total |-> 0, synthetic |-> 0, external |-> 0, repository |-> 0, errors |-> 0]

PipeIdle ==
  /\ tree = << >> /\ synthetic = NoStream /\ external = NoStream
  /\ pc = "idle" /\ files = << >> /\ fi = 1 /\ merged = << >>
  /\ total = 0 /\ syntheticCount = 0 /\ externalCount = 0
  /\ li = 1 /\ stats = ZeroStats /\ placed = << >> /\ written = << >>

VARIABLES
  renPc,      \* where the Renamer run is
  renFiles,   \* the paths walkDir returned
  ri,         \* index of the next file
  usedNames,  \* usedNames: base name -> number of uses
  renStats,   \* stats
  renLog      \* per processed file, what the loop did with it

renVars == << renPc, renFiles, ri, usedNames, renStats, renLog >>

RenStatsSkippedOne == [processed |-> 0, renamed |-> 0, skipped |-> 1, errors |-> 0, duplicates |-> 0]
ZeroRenStats == [processed |-> 0, renamed |-> 0, skipped |-> 0, errors |-> 0, duplicates |-> 0]

EmptyMap == [n \in {} |-> 0]

RenIdle ==
  /\ renPc = "idle" /\ renFiles = << >> /\ ri = 1 /\ usedNames = EmptyMap
  /\ renStats = ZeroRenStats /\ renLog = << >>

VARIABLES sanPc, sanIn, sanOut, sanOut2

sanVars == << sanPc, sanIn, sanOut, sanOut2 >>

\* longest tail of free characters appended to a run of letters
MaxTail == 3

SanAlphabet == {"a", "Z", "7", "_", "-", "."}

\* run lengths around the truncation limit, and short ones
SanPadLens == {0, 1, NameLimit - 2, NameLimit - 1, NameLimit}

SanInputs == { Pad("a", k) \o t : k \in SanPadLens, t \in SeqsUpTo(SanAlphabet, MaxTail) }

SanIdle == sanPc = "idle" /\ sanIn = << >> /\ sanOut = << >> /\ sanOut2 = << >>

SanInit == sanPc = "start" /\ sanIn \in SanInputs /\ sanOut = << >> /\ sanOut2 = << >>

(***************************************************************************)
(* Actions                                                                 *)
(***************************************************************************)

\* One iteration of the file loop: the try block, and its empty catch
ConsolidateFile ==
  /\ pc = "repo"
  /\ fi <= Len(files)
  /\ IF BuildThrows(files[fi].val)
       THEN UNCHANGED << merged, total >>
       ELSE /\ merged' = Append(merged, Line(<< >>, Stringify(BuildRecord(files[fi]))))
            /\ total' = total + 1
  /\ fi' = fi + 1
  /\ UNCHANGED << tree, synthetic, external, pc, files, syntheticCount, externalCount,
                  li, stats, placed, written >>
  /\ UNCHANGED << sanVars, renVars >>

\* After the last file: streamJsonl(SYNTHETIC_JSONL, outputStream)
StreamSynthetic ==
  /\ pc = "repo"
  /\ fi > Len(files)
  /\ merged' = merged \o streamJsonl(synthetic)
  /\ syntheticCount' = Len(streamJsonl(synthetic))
  /\ total' = total + Len(streamJsonl(synthetic))
  /\ pc' = "external"
  /\ UNCHANGED << tree, synthetic, external, files, fi, externalCount,
                  li, stats, placed, written >>
  /\ UNCHANGED << sanVars, renVars >>

\* streamJsonl(EXTERNAL_CLEANED, outputStream), and outputStream.end()
StreamExternal ==
  /\ pc = "external"
  /\ merged' = merged \o streamJsonl(external)
  /\ externalCount' = Len(streamJsonl(external))
  /\ total' = total + Len(streamJsonl(external))
  /\ pc' = "done"
  /\ UNCHANGED << tree, synthetic, external, files, fi, syntheticCount,
                  li, stats, placed, written >>
  /\ UNCHANGED << sanVars, renVars >>

\* The Splitter opens n8n_workflows.jsonl
SplitStart ==
  /\ pc = "done"
  /\ pc' = "split"
  /\ li' = 1
  /\ stats' = ZeroStats
  /\ UNCHANGED << tree, synthetic, external, files, fi, merged, total, syntheticCount,
                  externalCount, placed, written >>
  /\ UNCHANGED << sanVars, renVars >>

\* One iteration of the line loop
SplitLine ==
  /\ pc = "split"
  /\ li <= Len(merged)
  /\ LET line == merged[li]
         record == line.val
         counted == [stats EXCEPT !.total = @ + 1]
         c == categorize(record)
         tallied == [counted EXCEPT ![c.counter] = @ + 1]
         dir == outputDir(c.category, c.subFolder)
         file == outputFile(dir, safeIdOf(record, counted.total),
                            Stringify(workflowContentOf(record)))
     IN IF IsBlank(line)
          THEN UNCHANGED << stats, placed, written, tree >>
        ELSE IF record.kind = "invalid"
          \* JSON.parse throws
          THEN /\ stats' = [stats EXCEPT !.errors = @ + 1]
               /\ UNCHANGED << placed, written, tree >>
        ELSE IF record.kind = "null"
          \* record.meta throws, after stats.total++
          THEN /\ stats' = [counted EXCEPT !.errors = @ + 1]
               /\ UNCHANGED << placed, written, tree >>
        ELSE IF WriteFails(c.category, c.subFolder)
          THEN /\ stats' = [tallied EXCEPT !.errors = @ + 1]
               /\ placed' = Append(placed, [line |-> li, category |-> c.category,
                                            subFolder |-> c.subFolder])
               /\ UNCHANGED << written, tree >>
        ELSE /\ stats' = tallied
             /\ placed' = Append(placed, [line |-> li, category |-> c.category,
                                          subFolder |-> c.subFolder])
             /\ written' = Append(written, [line |-> li, file |-> file, dir |-> dir])
             /\ tree' = IF BelowCategory(dir) THEN writeFile(tree, file) ELSE tree
  /\ li' = li + 1
  /\ UNCHANGED << synthetic, external, pc, files, fi, merged, total, syntheticCount,
                  externalCount >>
  /\ UNCHANGED << sanVars, renVars >>

\* The end of the input: the summary
SplitEnd ==
  /\ pc = "split"
  /\ li > Len(merged)
  /\ pc' = "splitDone"
  /\ UNCHANGED << tree, synthetic, external, files, fi, merged, total, syntheticCount,
                  externalCount, li, stats, placed, written >>
  /\ UNCHANGED << sanVars, renVars >>

\* One iteration of the file loop of main
RenameOne ==
  /\ renPc = "run"
  /\ ri <= Len(renFiles)
  /\ \E renameOk \in BOOLEAN :
       LET path == renFiles[ri]
           workflow == ReadAt(tree, path)
           originalName == path.stem
           counting == [renStats EXCEPT !.processed = @ + 1]
           baseName == generateName(workflow, originalName)
           counter == usedCount(usedNames, baseName)
           newName == IF counter > 0 THEN baseName \o << "_" >> \o DecimalString(counter)
                      ELSE baseName
           dup == IF counter > 0 THEN [counting EXCEPT !.duplicates = @ + 1] ELSE counting
       IN IF workflow.kind \in {"invalid", "empty"}
            \* fs.readFile or JSON.parse throws
            THEN /\ renameOk
                 /\ renStats' = [counting EXCEPT !.errors = @ + 1]
                 /\ renLog' = Append(renLog, LogEntry(path, workflow,
                                       LooksLikeHash(originalName), << >>, Undefined,
                                       Undefined, 0, "error"))
                 /\ UNCHANGED << usedNames, tree >>
          ELSE IF ~LooksLikeHash(originalName)
            THEN /\ renameOk
                 /\ renStats' = [counting EXCEPT !.skipped = @ + 1]
                 /\ renLog' = Append(renLog, LogEntry(path, workflow, FALSE, << >>, Undefined,
                                                      Undefined, 0, "skipped"))
                 /\ UNCHANGED << usedNames, tree >>
          ELSE IF GenerateThrows(workflow)
            THEN /\ renameOk
                 /\ renStats' = [counting EXCEPT !.errors = @ + 1]
                 /\ renLog' = Append(renLog, LogEntry(path, workflow, TRUE, << >>, Undefined,
                                                      Undefined, 0, "error"))
                 /\ UNCHANGED << usedNames, tree >>
          ELSE IF newName = originalName
            \* filePath === newPath
            THEN /\ renameOk
                 /\ usedNames' = usedSet(usedNames, baseName, counter)
                 /\ renStats' = [dup EXCEPT !.skipped = @ + 1]
                 /\ renLog' = Append(renLog, LogEntry(path, workflow, TRUE, namePartsOf(workflow),
                                       baseName, newName, counter, "skipped"))
                 /\ UNCHANGED tree
          ELSE IF renameOk
            THEN /\ usedNames' = usedSet(usedNames, baseName, counter)
                 /\ tree' = renameFile(tree, path, newName)
                 /\ renStats' = [dup EXCEPT !.renamed = @ + 1]
                 /\ renLog' = Append(renLog, LogEntry(path, workflow, TRUE, namePartsOf(workflow),
                                       baseName, newName, counter, "renamed"))
          \* fs.rename rejects
          ELSE /\ usedNames' = usedSet(usedNames, baseName, counter)
               /\ renStats' = [dup EXCEPT !.errors = @ + 1]
               /\ renLog' = Append(renLog, LogEntry(path, workflow, TRUE, namePartsOf(workflow),
                                     baseName, newName, counter, "error"))
               /\ UNCHANGED tree
  /\ ri' = ri + 1
  /\ UNCHANGED << renPc, renFiles >>
  /\ UNCHANGED << sanVars, runVars >>

\* After the last file: the summary
RenameEnd ==
  /\ renPc = "run"
  /\ ri > Len(renFiles)
  /\ renPc' = "done"
  /\ UNCHANGED << renFiles, ri, usedNames, renStats, renLog, tree >>
  /\ UNCHANGED << sanVars, runVars >>

\* The Renamer is run on the tree the Splitter left
RenameStart ==
  /\ pc = "splitDone"
  /\ renPc = "idle"
  /\ renPc' = "run"
  /\ renFiles' = RenameFiles(tree)
  /\ ri' = 1
  /\ usedNames' = EmptyMap
  /\ renStats' = ZeroRenStats
  /\ renLog' = << >>
  /\ UNCHANGED << sanVars, pipeVars >>

\* The Splitter is run on the output of the first Consolidator run
SplitOnce == SplitStart /\ placed = << >> /\ written = << >>

\* The Consolidator is run again, on the tree the Splitter left: the output
\* file is created afresh
ConsolidateAgain ==
  /\ pc = "splitDone"
  /\ pc' = "repo"
  /\ files' = RepoFiles(tree)
  /\ fi' = 1
  /\ merged' = << >>
  /\ total' = 0
  /\ syntheticCount' = 0
  /\ externalCount' = 0
  /\ UNCHANGED << tree, synthetic, external, li, stats, placed, written >>
  /\ UNCHANGED << sanVars, renVars >>

\* What the Consolidator prints: the lines "Repository workflows", "Synthetic
\* workflows", "External workflows" and "Final dataset contains"
consolidatorReport ==
  [repository |-> total - syntheticCount - externalCount, synthetic |-> syntheticCount,
   external |-> externalCount, total |-> total]

\* What the Splitter prints under SPLIT COMPLETE
splitterReport ==
  [total |-> stats.total, synthetic |-> stats.synthetic, external |-> stats.external,
   repository |-> stats.repository, errors |-> stats.errors]

\* What the Renamer prints under RENAME COMPLETE
renamerReport ==
  [processed |-> renStats.processed, renamed |-> renStats.renamed,
   skipped |-> renStats.skipped, duplicates |-> renStats.duplicates,
   errors |-> renStats.errors]

SanitizeOnce ==
  /\ sanPc = "start"
  /\ sanOut' = sanitizeFilename(sanIn)
  /\ sanPc' = "once"
  /\ UNCHANGED << sanIn, sanOut2 >>
  /\ UNCHANGED << pipeVars, renVars >>

SanitizeAgain ==
  /\ sanPc = "once"
  /\ sanOut2' = sanitizeFilename(sanOut)
  /\ sanPc' = "twice"
  /\ UNCHANGED << sanIn, sanOut >>
  /\ UNCHANGED << pipeVars, renVars >>

(***************************************************************************)
(* Specifications                                                          *)
(***************************************************************************)

vars == << sanVars, pipeVars, renVars >>

\* A Consolidator run about to start on a directory tree and two streams
ConsolidatorStarts(trees, synths, exts) ==
  /\ tree \in trees /\ synthetic \in synths /\ external \in exts
  /\ pc = "repo" /\ files = RepoFiles(tree) /\ fi = 1 /\ merged = << >>
  /\ total = 0 /\ syntheticCount = 0 /\ externalCount = 0
  /\ li = 1 /\ stats = ZeroStats /\ placed = << >> /\ written = << >>

\* One Consolidator run
Init ==
  /\ ConsolidatorStarts(Trees(FilePool, MaxFiles), Streams(MaxSynth, [i \in 1..MaxSynth |-> SynLine(i)]),
                        Streams(MaxExt, [i \in 1..MaxExt |-> ExtLine(i)]))
  /\ SanIdle /\ RenIdle

Next == ConsolidateFile \/ StreamSynthetic \/ StreamExternal

Spec == Init /\ [][Next]_vars

\* One Consolidator run, and one Splitter run on its output
RoundTripInit ==
  /\ ConsolidatorStarts(Trees(FilePool, MaxFiles), {Stream(TRUE, << SynLine(1) >>)},
                        {NoStream})
  /\ SanIdle /\ RenIdle

RoundTripNext ==
  ConsolidateFile \/ StreamSynthetic \/ StreamExternal \/ SplitStart \/ SplitLine \/ SplitEnd

SpecRoundTrip == RoundTripInit /\ [][RoundTripNext]_vars

\* One Splitter run on a merged stream
SplitInit ==
  /\ tree = << >> /\ synthetic = NoStream /\ external = NoStream
  /\ pc = "done" /\ files = << >> /\ fi = 1
  /\ merged \in SeqsUpTo(LinePool, MaxLines)
  /\ total = Len(merged) /\ syntheticCount = 0 /\ externalCount = 0
  /\ li = 1 /\ stats = ZeroStats /\ placed = << >> /\ written = << >>
  /\ SanIdle /\ RenIdle

SplitNext == SplitStart \/ SplitLine \/ SplitEnd

SpecSplit == SplitInit /\ [][SplitNext]_vars

\* One Splitter run on a merged stream of lines that differ in their paths
SplitFilesInit ==
  /\ tree = << >> /\ synthetic = NoStream /\ external = NoStream
  /\ pc = "done" /\ files = << >> /\ fi = 1
  /\ merged \in SeqsUpTo(PathPool, MaxLines)
  /\ total = Len(merged) /\ syntheticCount = 0 /\ externalCount = 0
  /\ li = 1 /\ stats = ZeroStats /\ placed = << >> /\ written = << >>
  /\ SanIdle /\ RenIdle

SpecSplitFiles == SplitFilesInit /\ [][SplitNext]_vars

\* The three stages in turn: Consolidator, Splitter, Renamer
PipelineInit ==
  /\ ConsolidatorStarts(Trees(StagePool, Len(StagePool)), StageSynthetics, StageExternals)
  /\ SanIdle /\ RenIdle

PipelineNext ==
  \/ ConsolidateFile \/ StreamSynthetic \/ StreamExternal
  \/ SplitStart \/ SplitLine \/ SplitEnd
  \/ RenameStart \/ RenameOne \/ RenameEnd

SpecPipeline == PipelineInit /\ [][PipelineNext]_vars

\* Consolidator, Splitter into the same workflows root, Consolidator again
ReconsolidateInit ==
  /\ ConsolidatorStarts(Trees(FilePool, MaxFiles),
                        Streams(MaxSynth, [i \in 1..MaxSynth |-> SynLine(i)]), {NoStream})
  /\ SanIdle /\ RenIdle

ReconsolidateNext ==
  \/ ConsolidateFile \/ StreamSynthetic \/ StreamExternal
  \/ SplitOnce \/ SplitLine \/ SplitEnd
  \/ ConsolidateAgain

SpecReconsolidate == ReconsolidateInit /\ [][ReconsolidateNext]_vars

\* One Renamer run
RenameInit ==
  /\ tree \in Trees(RenPool, MaxRenFiles)
  /\ synthetic = NoStream /\ external = NoStream
  /\ pc = "idle" /\ files = << >> /\ fi = 1 /\ merged = << >>
  /\ total = 0 /\ syntheticCount = 0 /\ externalCount = 0
  /\ li = 1 /\ stats = ZeroStats /\ placed = << >> /\ written = << >>
  /\ renPc = "run" /\ renFiles = RenameFiles(tree) /\ ri = 1 /\ usedNames = EmptyMap
  /\ renStats = ZeroRenStats /\ renLog = << >>
  /\ SanIdle

RenameNext == RenameOne \/ RenameEnd

SpecRename == RenameInit /\ [][RenameNext]_vars

\* sanitizeFilename on a name, and on its result
SanitizeNext == SanitizeOnce \/ SanitizeAgain

SanitizeInit == SanInit /\ PipeIdle /\ RenIdle

SpecSanitize == SanitizeInit /\ [][SanitizeNext]_vars

(***************************************************************************)
(* Properties                                                              *)
(***************************************************************************)

\* C6: sanitizeFilename is idempotent, and its result consists of characters of
\* [a-z0-9_-] only and is at most 80 characters long.
SanitizeIdempotentAndSafe ==
  /\ sanPc \in {"once", "twice"} =>
       /\ Len(sanOut) <= NameLimit
       /\ \A i \in 1..Len(sanOut) : sanOut[i] \in SafeLowerChars
  /\ sanPc = "twice" => sanOut2 = sanOut

\* The indices of the lines of a stream that are not blank, and the k-th of them
NonBlankIdx(stream) ==
  IF stream.exists
    THEN { i \in 1..Len(stream.lines) : stream.lines[i].val.kind # "empty" }
    ELSE {}
KthNonBlank(stream, k) ==
  stream.lines[CHOOSE i \in NonBlankIdx(stream) :
                 Cardinality({ m \in NonBlankIdx(stream) : m <= i }) = k]

\* The walked files whose text parses as JSON
ParsedFiles == { i \in 1..Len(files) : files[i].val.kind \notin {"invalid", "empty"} }

\* How many of the lines of the merged stream come from each stream so far
SynCopied == IF pc \in {"external", "done"} THEN Cardinality(NonBlankIdx(synthetic)) ELSE 0
ExtCopied == IF pc = "done" THEN Cardinality(NonBlankIdx(external)) ELSE 0

\* The merged stream line j is the record of file i
RecordOf(j, i) ==
  LET r == merged[j].val
  IN /\ r.kind = "object" /\ "content" \in DOMAIN r
     /\ r.category = files[i].cat
     /\ r.content = Stringify(files[i].val)
     /\ r.id = OrElse(GetStr(files[i].val, "id"), files[i].stem)

\* C2: when a Consolidator run ends, the merged stream has as many lines as
\* there are walked files whose text parses, plus the non-blank lines of the
\* synthetic stream, plus those of the external stream; and total is that number.
MergedCountsParsedFiles ==
  pc = "done" =>
    /\ Len(merged) = Cardinality(ParsedFiles) + Cardinality(NonBlankIdx(synthetic))
                       + Cardinality(NonBlankIdx(external))
    /\ total = Len(merged)

\* C3: the merged stream holds the records of on-disk files in discovery order,
\* then the non-blank synthetic lines in source order, then the non-blank
\* external lines in source order, each copied line equal to its input line;
\* an empty tree with a synthetic stream of 3 lines and no external stream
\* gives those 3 lines.
MergedInSourceOrder ==
  pc \in {"repo", "external", "done"} =>
    LET nRepo == Len(merged) - SynCopied - ExtCopied
    IN /\ nRepo >= 0
       /\ \E g \in [1..nRepo -> 1..(fi - 1)] :
            /\ \A j \in 1..nRepo : RecordOf(j, g[j])
            /\ \A j, k \in 1..nRepo : j < k => g[j] < g[k]
       /\ \A j \in 1..SynCopied : merged[nRepo + j] = KthNonBlank(synthetic, j)
       /\ \A j \in 1..ExtCopied : merged[nRepo + SynCopied + j] = KthNonBlank(external, j)
       /\ ( /\ pc = "done" /\ files = << >> /\ ~external.exists /\ synthetic.exists
            /\ Len(synthetic.lines) = 3
            /\ \A i \in 1..3 : synthetic.lines[i].val.kind # "empty" )
          => merged = synthetic.lines

\* C3 witness: a finished run whose merged stream holds a record of a file, two
\* synthetic lines around a skipped blank line, and an external line
MergedAllSources ==
  /\ pc = "done"
  /\ Len(merged) - SynCopied - ExtCopied >= 1
  /\ Len(synthetic.lines) = 3 /\ NonBlankIdx(synthetic) = {1, 3}
  /\ ExtCopied = 1

\* workflows/demo/x.json of the scenario
DemoFile == File(<< "d", "e", "m", "o" >>, << >>, << "x" >>, DemoWorkflow)

DemoConsolidatedWith(integrations) ==
  \A i \in 1..(fi - 1) :
    files[i] = DemoFile =>
      \E j \in 1..Len(merged) :
        LET r == merged[j].val
        IN /\ r.kind = "object" /\ "content" \in DOMAIN r
           /\ r.content = DemoWorkflow /\ r.id = << "x" >>
           /\ r.integrations = integrations
           /\ r.node_count = 2
           /\ r.category = << "d", "e", "m", "o" >>

\* C5: workflows/demo/x.json with name "Test" and nodes n8n-nodes-base.slack and
\* n8n-nodes-base.set is consolidated to a record with integrations = ["slack"],
\* node_count = 2 and category = "demo".
DemoIntegrationsSlackOnly == DemoConsolidatedWith(<< << "s", "l", "a", "c", "k" >> >>)

\* C5 as amended: that file is consolidated to a record with
\* integrations = ["set", "slack"], node_count = 2 and category = "demo".
DemoIntegrationsSetSlack ==
  DemoConsolidatedWith(<< << "s", "e", "t" >>, << "s", "l", "a", "c", "k" >> >>)

\* C5 witness: the file of the scenario has been consolidated
DemoFileConsolidated == \E i \in 1..(fi - 1) : files[i] = DemoFile

\* C10: every record built from an on-disk file has a meta mapping with a
\* source field.
RepoRecordsHaveSource ==
  pc = "repo" =>
    \A j \in 1..Len(merged) :
      /\ merged[j].val.meta.k = "object"
      /\ merged[j].val.meta.source # Undefined

\* C1: after the Consolidator and then the Splitter, every on-disk file that was
\* parsed into a record has a file written by the Splitter below the directory
\* named after its category, with the same parsed JSON.
RoundTripReproducesFiles ==
  pc = "splitDone" =>
    \A i \in 1..Len(files) :
      ~BuildThrows(files[i].val) =>
        \E k \in 1..Len(written) :
          /\ written[k].file.cat = files[i].cat
          /\ ReadAt(tree, written[k].file) = files[i].val

\* When a string property counts as given: "present" reads it as defined,
\* "truthy" as defined and not empty
Given(reading, s) == IF reading = "present" THEN s # Undefined ELSE Truthy(s)

\* The Splitter's decisions follow the four rules in order, the reading telling when
\* meta.archetype and category count as given; equal records are placed alike;
\* and every line that parses to a value other than null is categorized.
CategorizedBy(reading) ==
  /\ \A k \in 1..Len(placed) :
       LET p == placed[k]
           r == merged[p.line].val
           meta == GetMeta(r)
           cat == GetStr(r, "category")
       IN IF meta.generated = TRUE \/ Given(reading, meta.archetype)
            THEN /\ p.category = CatSynthetic
                 /\ p.subFolder = (IF Given(reading, meta.archetype) THEN meta.archetype ELSE << >>)
          ELSE IF meta.source = SourceExternal
            THEN p.category = CatExternal /\ p.subFolder = << >>
          ELSE IF Given(reading, cat)
            THEN p.category = cat /\ p.subFolder = << >>
          ELSE p.category = CatUncategorized /\ p.subFolder = << >>
  /\ \A k, l \in 1..Len(placed) :
       merged[placed[k].line].val = merged[placed[l].line].val =>
         /\ placed[k].category = placed[l].category
         /\ placed[k].subFolder = placed[l].subFolder
  /\ \A i \in 1..(li - 1) :
       merged[i].val.kind \in {"object", "number"} =>
         \E k \in 1..Len(placed) : placed[k].line = i

\* C4: the category is decided by the record alone, first match wins:
\* meta.generated === true or meta.archetype present gives "synthetic" (subfolder
\* meta.archetype if present); else meta.source "external_community" gives
\* "external"; else a present category gives that category; else "uncategorized".
CategorizedByPresence == CategorizedBy("present")

\* C4 as amended: the same rules, with "present" read as "not empty": an empty
\* meta.archetype or category counts as absent.
CategorizedByTruthiness == CategorizedBy("truthy")

\* C4 witness: a record with meta.generated = true, meta.source
\* "external_community" and a category has been placed under "synthetic"
GeneratedExternalPlaced ==
  \E k \in 1..Len(placed) :
    LET r == merged[placed[k].line].val
    IN /\ GetMeta(r).generated = TRUE /\ GetMeta(r).source = SourceExternal
       /\ Truthy(GetStr(r, "category"))
       /\ placed[k].category = CatSynthetic

\* The log entries that reached the naming step
Named(k) == renLog[k].base # Undefined

\* How often the base name of entry k was used before it
EarlierUses(k) ==
  Cardinality({ j \in 1..(k - 1) : Named(j) /\ renLog[j].base = renLog[k].base })

\* C7: two hash-named files with the same base name get different names: the
\* first use of a base name gets it as it is, the k-th later use gets
\* <base>_<k> and adds one to the duplicates counter; a file whose basename
\* does not look like a hash is never renamed.
SameBaseDifferentNames ==
  /\ \A k \in 1..Len(renLog) :
       Named(k) =>
         /\ renLog[k].hash
         /\ renLog[k].newName =
              (IF EarlierUses(k) = 0 THEN renLog[k].base
               ELSE renLog[k].base \o << "_" >> \o DecimalString(EarlierUses(k)))
  /\ \A j, k \in 1..Len(renLog) :
       (j < k /\ Named(j) /\ Named(k) /\ renLog[j].base = renLog[k].base)
         => renLog[j].newName # renLog[k].newName
  /\ renStats.duplicates =
       Cardinality({ k \in 1..Len(renLog) : Named(k) /\ EarlierUses(k) >= 1 })
  /\ \A k \in 1..Len(renLog) :
       ~LooksLikeHash(renLog[k].path.stem) =>
         /\ renLog[k].outcome # "renamed"
         /\ \E i \in 1..Len(tree) : SamePath(tree[i], renLog[k].path)

\* C7 witness: the third file with one base name has been renamed to <base>_2
ThirdUseRenamed ==
  \E k \in 1..Len(renLog) :
    /\ Named(k) /\ EarlierUses(k) = 2 /\ renLog[k].outcome = "renamed"
    /\ renStats.duplicates = 2

\* The nodes of a workflow that give a name: a type outside the skip set from
\* which a name is extracted
Contributing(w) ==
  { i \in 1..Len(NodesOrEmpty(w)) :
      LET t == NodesOrEmpty(w)[i].type
      IN Truthy(t) /\ t \notin SKIP_NODES /\ nodeTypeName(t) # << >> }
NameAt(w, i) == nodeTypeName(NodesOrEmpty(w)[i].type)[1]
NameSet(w) == { NameAt(w, i) : i \in Contributing(w) }
FirstAt(w, name) ==
  CHOOSE i \in Contributing(w) :
    NameAt(w, i) = name /\ \A j \in Contributing(w) : NameAt(w, j) = name => i <= j

\* parts is: the archetype when there is one, then the first names, at most 4,
\* distinct, in the order of their first node
PartsAsClaimed(w, parts) ==
  LET arch == GetMeta(w).archetype
      names == IF Truthy(arch) THEN Tail(parts) ELSE parts
  IN /\ Truthy(arch) => parts # << >> /\ parts[1] = arch
     /\ Len(names) <= 4
     /\ Len(names) = (IF Cardinality(NameSet(w)) < 4 THEN Cardinality(NameSet(w)) ELSE 4)
     /\ \A j \in 1..Len(names) : names[j] \in NameSet(w)
     /\ \A j, k \in 1..Len(names) : j < k => FirstAt(w, names[j]) < FirstAt(w, names[k])
     /\ \A n \in NameSet(w) :
          (\A j \in 1..Len(names) : names[j] # n) =>
            \A j \in 1..Len(names) : FirstAt(w, names[j]) < FirstAt(w, n)

NoPartsKeepsFilename ==
  \A k \in 1..Len(renLog) :
    LET e == renLog[k]
        name == GetStr(e.val, "name")
    IN ( /\ e.hash
         /\ e.val.kind \notin {"invalid", "empty"}
         /\ ~GenerateThrows(e.val)
         /\ ~Truthy(GetMeta(e.val).archetype)
         /\ Contributing(e.val) = {}
         /\ (~Truthy(name) \/ name = e.path.stem) )
       => /\ e.outcome = "skipped"
          /\ \E i \in 1..Len(tree) : SamePath(tree[i], e.path)

\* The characters of a file name the Splitter derives
IdChars == UpperChars \cup LowerChars \cup Digits \cup {"_", "-"}

\* How many lines up to line i parsed: the blank and the invalid ones do not
ParsedUpTo(i) ==
  Cardinality({ m \in 1..i : merged[m].val.kind \notin {"empty", "invalid"} })

\* id, else name, else workflow_<n>, as the claim reads them
RawIdOf(i) ==
  LET r == merged[i].val
  IN IF Truthy(GetStr(r, "id")) THEN GetStr(r, "id")
     ELSE IF Truthy(GetStr(r, "name")) THEN GetStr(r, "name")
     ELSE << "w", "o", "r", "k", "f", "l", "o", "w", "_" >> \o DecimalString(ParsedUpTo(i))

\* C11: each record is written to <category>[/<subfolder>]/<base>.json below the
\* output root, base being id, else name, else workflow_<n> with n the count of
\* records parsed so far, every character outside [A-Za-z0-9_-] replaced by _
\* and cut to 100 characters; when two records of a run derive one path, the
\* file holds the later record's content and no error is counted.
WrittenWhereNamed ==
  /\ \A k \in 1..Len(written) :
       LET w == written[k]
           raw == RawIdOf(w.line)
           base == w.file.stem
       IN /\ Len(base) = (IF Len(raw) <= 100 THEN Len(raw) ELSE 100)
          /\ \A c \in 1..Len(base) :
               base[c] = (IF raw[c] \in IdChars THEN raw[c] ELSE "_")
          /\ \E p \in 1..Len(placed) :
               /\ placed[p].line = w.line
               /\ w.dir = outputDir(placed[p].category, placed[p].subFolder)
          /\ BelowCategory(w.dir) =>
               LET last == CHOOSE l \in k..Len(written) :
                             /\ written[l].dir = w.dir /\ written[l].file.stem = base
                             /\ \A m \in (l + 1)..Len(written) :
                                  ~(written[m].dir = w.dir /\ written[m].file.stem = base)
               IN /\ ReadAt(tree, w.file) = written[last].file.val
                  /\ written[last].file.val =
                       Stringify(workflowContentOf(merged[written[last].line].val))
  /\ stats.errors =
       Cardinality({ i \in 1..(li - 1) : merged[i].val.kind = "invalid" })

\* C11 witness: two records whose ids are cut to the same 100 characters have
\* been written, and the file holds the content of the later one
LaterRecordWins ==
  \E j, k \in 1..Len(written) :
    /\ j < k
    /\ GetStr(merged[written[j].line].val, "id") # GetStr(merged[written[k].line].val, "id")
    /\ Len(GetStr(merged[written[j].line].val, "id")) > 100
    /\ written[j].file.stem = written[k].file.stem /\ written[j].dir = written[k].dir
    /\ written[j].file.val # written[k].file.val
    /\ ReadAt(tree, written[k].file) = written[k].file.val
    /\ stats.errors = 0

\* C15: every file the Splitter writes lies inside the output root, whatever
\* strings the record's category and meta.archetype hold.
WrittenInsideOutputRoot ==
  \A k \in 1..Len(written) : written[k].dir.up = 0

\* C16: at the end of a Splitter run each non-blank line is counted in exactly
\* one of synthetic, external, repository or errors: total = synthetic +
\* external + repository, and total + errors = the number of non-blank lines.
CountersPartitionLines ==
  pc = "splitDone" =>
    /\ stats.total = stats.synthetic + stats.external + stats.repository
    /\ stats.total + stats.errors =
         Cardinality({ i \in 1..Len(merged) : merged[i].val.kind # "empty" })

\* The number of files of a listing that lie in one directory
DirCount(listing, cat, sub) ==
  Cardinality({ i \in 1..Len(listing) : listing[i].cat = cat /\ listing[i].sub = sub })

\* C17: the Renamer never loses a file: no rename targets a path another file
\* of the tree occupies, so every directory holds as many JSON files after the
\* run, and between its files, as before it.
RenamerKeepsEveryFile ==
  renPc \in {"run", "done"} =>
    \A i \in 1..Len(renFiles) :
      DirCount(tree, renFiles[i].cat, renFiles[i].sub)
        = DirCount(renFiles, renFiles[i].cat, renFiles[i].sub)

\* The log entries with one outcome
WithOutcome(outcome) == { k \in 1..Len(renLog) : renLog[k].outcome = outcome }

\* C18: between files and at the end of a Renamer run, processed = renamed +
\* skipped + errors, each walked file adding one to exactly one of the three;
\* and duplicates never exceeds processed.
RenamerCountersAddUp ==
  renPc \in {"run", "done"} =>
    /\ renStats.processed = renStats.renamed + renStats.skipped + renStats.errors
    /\ renStats.processed = ri - 1
    /\ renStats.renamed = Cardinality(WithOutcome("renamed"))
    /\ renStats.skipped = Cardinality(WithOutcome("skipped"))
    /\ renStats.errors = Cardinality(WithOutcome("error"))
    /\ renStats.duplicates <= renStats.processed

\* C18 witness: a finished run that renamed a file, skipped one and failed on one
RenamerAllOutcomes ==
  /\ renPc = "done"
  /\ renStats.renamed >= 1 /\ renStats.skipped >= 1 /\ renStats.errors >= 1

\* The lines of the merged stream the Splitter cannot parse, and those whose
\* file it cannot write
UnparsedLines == { i \in 1..Len(merged) : merged[i].val.kind = "invalid" }
UnwritableLines ==
  { i \in 1..Len(merged) :
      merged[i].val.kind = "object" /\ Includes(GetStr(merged[i].val, "category"), "\\u0000") }

\* The log entry k is about the file that now lies at tree[i]
LoggedAs(k, i) ==
  /\ renLog[k].path.cat = tree[i].cat /\ renLog[k].path.sub = tree[i].sub
  /\ \/ renLog[k].path.stem = tree[i].stem
     \/ renLog[k].outcome = "renamed" /\ renLog[k].newName = tree[i].stem

\* C12: a failure on one item never stops a stage. Once the Consolidator has
\* left its file loop every file that holds a workflow has its record, and at
\* its end both streams are copied; at the end of the Splitter every line that
\* fails to parse or to write is counted as an error and every other record is
\* written; at the end of the Renamer every file of its folders was visited and
\* every file that failed to parse or to rename is counted as an error.
StagesSurviveFailures ==
  /\ pc \in {"external", "done", "split", "splitDone"} =>
       \A i \in 1..Len(files) :
         files[i].val.kind = "object" => \E j \in 1..Len(merged) : RecordOf(j, i)
  /\ pc \in {"done", "split", "splitDone"} =>
       /\ \A i \in NonBlankIdx(synthetic) :
            \E j \in 1..Len(merged) : merged[j] = synthetic.lines[i]
       /\ \A i \in NonBlankIdx(external) :
            \E j \in 1..Len(merged) : merged[j] = external.lines[i]
  /\ pc = "splitDone" =>
       /\ stats.errors = Cardinality(UnparsedLines \cup UnwritableLines)
       /\ \A i \in 1..Len(merged) :
            (merged[i].val.kind = "object" /\ i \notin UnwritableLines) =>
              \E k \in 1..Len(written) : written[k].line = i
  /\ renPc = "done" =>
       /\ \A i \in 1..Len(tree) :
            tree[i].cat \in {CatSynthetic, CatExternal} =>
              \E k \in 1..Len(renLog) : LoggedAs(k, i)
       /\ \A k \in 1..Len(renLog) :
            renLog[k].val.kind = "invalid" => renLog[k].outcome = "error"
       /\ renStats.errors = Cardinality({ k \in 1..Len(renLog) : renLog[k].outcome = "error" })

\* C12 witness: all three stages ran to their end, each after failing on an item
\* that came before one it handled
EveryStageFailedAndWentOn ==
  /\ renPc = "done"
  /\ \E i, j \in 1..Len(files) :
       i < j /\ files[i].val.kind = "invalid" /\ files[j].val.kind = "object"
  /\ \E i \in UnparsedLines : \E k \in 1..Len(written) : written[k].line > i
  /\ \E i \in UnwritableLines : \E k \in 1..Len(written) : written[k].line > i
  /\ \E j, k \in 1..Len(renLog) :
       j < k /\ renLog[j].val.kind = "invalid" /\ renLog[k].outcome = "renamed"

\* C13: every stage's final report includes its error count: whenever a stage
\* skipped items because of a parse or filesystem error, the number of those
\* items is in its final summary.
ReportsIncludeErrorCount ==
  /\ pc \in {"done", "split", "splitDone"} =>
       LET skipped == Cardinality({ i \in 1..Len(files) : BuildThrows(files[i].val) })
       IN skipped > 0 =>
            /\ "errors" \in DOMAIN consolidatorReport
            /\ consolidatorReport["errors"] = skipped
  /\ pc = "splitDone" =>
       /\ "errors" \in DOMAIN splitterReport
       /\ splitterReport["errors"] = Cardinality(UnparsedLines \cup UnwritableLines)
  /\ renPc = "done" =>
       /\ "errors" \in DOMAIN renamerReport
       /\ renamerReport["errors"] =
            Cardinality({ k \in 1..Len(renLog) : renLog[k].outcome = "error" })

\* C14: after consolidate, split into the same workflows root and consolidate
\* again, the files the Splitter wrote for synthetic records are not among the
\* on-disk files the Consolidator reads as repository records.
SyntheticFilesNotReadBack ==
  \A i \in 1..Len(files) : \A k \in 1..Len(written) :
    (\E p \in 1..Len(placed) :
       placed[p].line = written[k].line /\ placed[p].category = CatSynthetic)
      => ~SamePath(files[i], written[k].file)

====
